---- MODULE Spec2Model ----
(***************************************************************************)
(* Model of check_mint.py: a straight-line script that derives the mint    *)
(* program-derived address, prints it, runs `solana account <addr>         *)
(* --output json` once and reports the outcome.                            *)
(*                                                                         *)
(* The script's own statements (lines 6-26) are modelled one action per    *)
(* statement.  The calls it makes into libraries are modelled by what they *)
(* return or raise:                                                        *)
(*   - Pubkey.find_program_address (solders) is not part of the            *)
(*     repository; it is modelled from section 4.1 of the specification,   *)
(*     with the hash uninterpreted (a candidate address is the symbolic    *)
(*     term of its inputs) and the curve membership of each candidate      *)
(*     chosen in Init;                                                     *)
(*   - subprocess.run is a child process that is spawned (or fails to      *)
(*     spawn), runs for a while and exits with some code and streams.  The *)
(*     streams are text in the locale's encoding, as the tool's interface  *)
(*     has it (section 4.2: "JSON text or error text"); captured bytes     *)
(*     that do not decode would make the call raise UnicodeDecodeError,    *)
(*     an exception of the same kind, in the same place, as SpawnFails;    *)
(*   - json.loads, dict.get, str() and repr() are given by their results   *)
(*     on a fixed set of sample outputs.                                   *)
(* print is assumed to succeed; signals delivered to the script are not    *)
(* modelled.                                                               *)
(***************************************************************************)
EXTENDS Integers, Sequences, FiniteSets, TLC

VARIABLES
    offCurveBumps,  \* bump seeds whose candidate address is NOT a curve point
    runs,           \* summaries of the earlier runs of the script
    pc,             \* the statement the current run is at
    mint_pda,       \* line 9
    bump,           \* line 9 (-1: not bound yet)
    output,         \* lines written to standard output by the current run
    invocations,    \* argument lists handed to subprocess.run by the current run
    tool,           \* the child process
    result,         \* line 14: the CompletedProcess
    data,           \* line 20
    exc             \* the exception in flight / caught at line 25

vars == <<offCurveBumps, runs, pc, mint_pda, bump, output, invocations, tool,
          result, data, exc>>

----------------------------------------------------------------------------
(* Bounds of the model *)

\* how many times the script is launched in one behaviour
MaxRuns == 2
\* how many steps the child process may take before it has to exit or hang
MaxToolSteps == 2

\* the bump seeds whose candidates may be off the curve in a behaviour; every
\* other bump seed's candidate is a curve point
SampleBumps == {0, 254, 255}

----------------------------------------------------------------------------
(* Python values *)

None == [t |-> "NoneType", v |-> "None"]
PyStrVal(s) == [t |-> "str", v |-> s]
PyIntVal(s) == [t |-> "int", v |-> s]
\* a nested dict, named by its repr
PyDictVal(s) == [t |-> "dict", v |-> s]

\* str(x), as an f-string field formats it
PyStr(x) == x.v

\* repr(x), as the repr of a containing dict shows it
PyRepr(x) == IF x.t = "str" THEN "'" \o x.v \o "'" ELSE x.v

----------------------------------------------------------------------------
(* dict, json.loads and the exception classes *)

PyDict(items) == [t |-> "dict", items |-> items]
PyOther(typeName) == [t |-> typeName, items |-> <<>>]
\* a name that is not bound yet
Unbound == [t |-> "unbound", items |-> <<>>]

RECURSIVE ItemsRepr(_)
ItemsRepr(items) ==
    IF items = <<>> THEN ""
    ELSE "'" \o items[1][1] \o "': " \o PyRepr(items[1][2])
         \o (IF Len(items) > 1 THEN ", " ELSE "") \o ItemsRepr(Tail(items))

\* str(d) of a dict, as f"{data}" formats it
DictRepr(d) == "{" \o ItemsRepr(d.items) \o "}"

\* d.get(key): the value stored under key, None when there is none
RECURSIVE Lookup(_, _)
Lookup(items, key) ==
    IF items = <<>> THEN None
    ELSE IF items[1][1] = key THEN items[1][2]
    ELSE Lookup(Tail(items), key)

DictGet(d, key) == Lookup(d.items, key)

\* only a dict has a get method
HasGet(x) == x.t = "dict"

Exc(type, msg) == [type |-> type, msg |-> msg]
NoExc == Exc("", "")

\* the direct base class of each exception class that occurs
BaseOf(cls) ==
    CASE cls = "JSONDecodeError"    -> "ValueError"
      [] cls = "ValueError"         -> "Exception"
      [] cls = "FileNotFoundError"  -> "OSError"
      [] cls = "OSError"            -> "Exception"
      [] cls = "AttributeError"     -> "Exception"
      [] cls = "Exception"          -> "BaseException"
      [] cls = "PanicException"     -> "BaseException"
      [] OTHER                      -> "object"

RECURSIVE IsSubclass(_, _)
IsSubclass(cls, base) ==
    IF cls = base THEN TRUE
    ELSE IF cls = "object" THEN FALSE
    ELSE IsSubclass(BaseOf(cls), base)

\* What the child process may write to its standard output
OutOwner == "{\"owner\": \"TokenkegQ\"}"
OutOwnerMore == "{\"owner\": \"11111111\", \"lamports\": 5}"
OutOwnerNull == "{\"owner\": null}"
OutNested == "{\"pubkey\": \"Dy2T\", \"account\": {\"owner\": \"TokenkegQ\"}}"
OutEmptyObject == "{}"
OutList == "[\"owner\"]"
OutString == "\"owner\""
OutEmpty == ""
OutTruncated == "{\"owner\": "
Stdouts == {OutOwner, OutOwnerMore, OutOwnerNull, OutNested, OutEmptyObject,
            OutList, OutString, OutEmpty, OutTruncated}
Stderrs == {"", "boom"}
\* exit codes; a negative code is the signal that killed the child
ReturnCodes == {0, 1, -9}

Loaded(value) == [ok |-> TRUE, value |-> value, error |-> NoExc]
LoadFailed(msg) == [ok |-> FALSE, value |-> Unbound, error |-> Exc("JSONDecodeError", msg)]

\* json.loads on each sample
JsonLoads(s) ==
    CASE s = OutOwner -> Loaded(PyDict(<< <<"owner", PyStrVal("TokenkegQ")>> >>))
      [] s = OutOwnerMore ->
            Loaded(PyDict(<< <<"owner", PyStrVal("11111111")>>,
                             <<"lamports", PyIntVal("5")>> >>))
      [] s = OutOwnerNull -> Loaded(PyDict(<< <<"owner", None>> >>))
      [] s = OutNested ->
            Loaded(PyDict(<< <<"pubkey", PyStrVal("Dy2T")>>,
                             <<"account", PyDictVal("{'owner': 'TokenkegQ'}")>> >>))
      [] s = OutEmptyObject -> Loaded(PyDict(<<>>))
      [] s = OutList -> Loaded(PyOther("list"))
      [] s = OutString -> Loaded(PyOther("str"))
      [] s = OutEmpty -> LoadFailed("Expecting value: line 1 column 1 (char 0)")
      [] s = OutTruncated -> LoadFailed("Expecting value: line 1 column 11 (char 10)")
      [] OTHER -> LoadFailed("Expecting value: line 1 column 1 (char 0)")

----------------------------------------------------------------------------
(* Pubkey and address derivation *)

\* Pubkey.from_string: the key that a base-58 text names
PubkeyFromString(s) == [b58 |-> s]

\* the hash of (seeds, bump seed, program id), uninterpreted
CreateCandidate(seeds, b, program_id) ==
    [seeds |-> seeds, bump |-> b, program_id |-> program_id]

RECURSIVE SeedsText(_)
SeedsText(seeds) ==
    IF seeds = <<>> THEN "" ELSE seeds[1] \o "," \o SeedsText(Tail(seeds))

\* str(pubkey): the base-58 text of the key; that of a derived address is
\* written as the term it is the hash of, so distinct keys have distinct texts
PubkeyStr(k) ==
    IF "b58" \in DOMAIN k THEN k.b58
    ELSE IF "bump" \in DOMAIN k
         THEN "pda(" \o SeedsText(k.seeds) \o ToString(k.bump) \o "," \o k.program_id.b58 \o ")"
    ELSE "None"

\* the largest bump seed: one byte
MaxBumpSeed == 255

\* the canonical "is this a valid curve point" check.  The program identifier
\* of line 6 decodes to a point of the curve; a candidate is one unless its
\* bump seed is among offCurveBumps.
IsOnCurve(k) ==
    IF "bump" \in DOMAIN k THEN k.bump \notin offCurveBumps ELSE TRUE

FoundAddress(address, b) == [ok |-> TRUE, address |-> address, bump |-> b]
NotFound == [ok |-> FALSE, address |-> Unbound, bump |-> -1]

\* the bump seeds, among those from..to, whose candidate is off the curve
OffCurveIn(from, to, seeds, program_id) ==
    {b \in from..to : ~IsOnCurve(CreateCandidate(seeds, b, program_id))}

\* a scan that starts at the lowest bump seed and returns the lowest
\* off-curve one
FindProgramAddressLowest(seeds, program_id) ==
    LET off == OffCurveIn(0, MaxBumpSeed, seeds, program_id) IN
      IF off = {} THEN NotFound
      ELSE LET b == CHOOSE x \in off : \A y \in off : x <= y IN
             FoundAddress(CreateCandidate(seeds, b, program_id), b)

\* Pubkey.find_program_address: the bump seeds are tried from MaxBumpSeed
\* downward to 0 and the first whose candidate is off the curve is taken,
\* with its candidate; that is the largest off-curve one
FindProgramAddress(seeds, program_id) ==
    LET off == OffCurveIn(0, MaxBumpSeed, seeds, program_id) IN
      IF off = {} THEN NotFound
      ELSE LET b == CHOOSE x \in off : \A y \in off : y <= x IN
             FoundAddress(CreateCandidate(seeds, b, program_id), b)

----------------------------------------------------------------------------
(* The script's constants and expressions *)

\* line 6
ENERGY_TOKEN_PROGRAM_ID ==
    PubkeyFromString("HaT3koMseafcCB9aUQUCrSLMDfN1km7Xik9UhZSG9UV6")

\* a seed list that differs from launch to launch
SEEDS_PerRun == <<IF runs = <<>> THEN "mint" ELSE "mint" \o ToString(Len(runs))>>

\* line 7
SEEDS == <<"mint">>

\* line 10
MintAddressLine(k) == "Mint Address: " \o PubkeyStr(k)

\* an argument list that names the program instead of the derived address
ToolArgvProgram(k) ==
    <<"solana", "account", PubkeyStr(ENERGY_TOKEN_PROGRAM_ID), "--output", "json">>

\* an argument list without the output format
ToolArgvNoJson(k) == <<"solana", "account", PubkeyStr(k)>>

\* line 15
ToolArgv(k) == <<"solana", "account", PubkeyStr(k), "--output", "json">>

\* a test of the exit code that is the wrong way round
IsSuccessInverted(res) == res.returncode # 0

\* line 19
IsSuccess(res) == res.returncode = 0

\* line 21
OwnerLine(d) == "Owner: " \o PyStr(DictGet(d, "owner"))

\* line 22
DataLine(d) == "Data: " \o DictRepr(d)

\* an error report that shows the wrong stream
ErrorLineStdout(res) == "Error getting account: " \o res.stdout

\* line 24
ErrorLine(res) == "Error getting account: " \o res.stderr

\* a handler for parsing errors only
HandlerClassValueError == "ValueError"

\* line 25
HandlerClass == "Exception"

\* line 26
ExceptionLine(e) == "Exception: " \o e.msg

\* a try block around the subprocess call alone
InTryCallOnly(line) == line >= 14 /\ line <= 18

\* lines 13-24: the statements the try block covers
InTry(line) == line >= 14 /\ line <= 24

\* an exception raised outside the try block is dropped and the script
\* goes on with its next statement
RaiseContinue(line) == IF InTry(line) THEN "l25" ELSE "l10"

\* where an exception raised at a line takes the run: to the except clause
\* when the line is inside the try block, out of the script otherwise
Raise(line) == IF InTry(line) THEN "l25" ELSE "crashed"

\* a call that gives up on a child that is still running
RunMayReturnEarly == tool.state = "exited" \/ (tool.state = "running" /\ tool.steps >= 1)

\* lines 14-18: subprocess.run has no timeout; it returns once the child exited
RunMayReturn == tool.state = "exited"

----------------------------------------------------------------------------
(* State *)

\* the child process: steps counts the steps it has taken while it runs
NoTool == [state |-> "none", steps |-> 0, returncode |-> 0, stdout |-> "", stderr |-> ""]
NoResult == [returncode |-> 0, stdout |-> "", stderr |-> ""]

Init ==
    /\ offCurveBumps \in SUBSET SampleBumps
    /\ runs = <<>>
    /\ pc = "l9"
    /\ mint_pda = Unbound
    /\ bump = -1
    /\ output = <<>>
    /\ invocations = <<>>
    /\ tool = NoTool
    /\ result = NoResult
    /\ data = Unbound
    /\ exc = NoExc

----------------------------------------------------------------------------
(* The script, statement by statement *)

\* line 9: mint_pda, bump = Pubkey.find_program_address(SEEDS, ENERGY_TOKEN_PROGRAM_ID)
Derive ==
    /\ pc = "l9"
    /\ LET r == FindProgramAddress(SEEDS, ENERGY_TOKEN_PROGRAM_ID) IN
         IF r.ok
         THEN /\ mint_pda' = r.address
              /\ bump' = r.bump
              /\ pc' = "l10"
              /\ exc' = exc
         ELSE /\ exc' = Exc("PanicException", "Unable to find a viable program address bump seed")
              /\ pc' = Raise(9)
              /\ UNCHANGED <<mint_pda, bump>>
    /\ UNCHANGED <<offCurveBumps, runs, output, invocations, tool, result, data>>

\* line 10: print(f"Mint Address: {mint_pda}")
PrintMint ==
    /\ pc = "l10"
    /\ output' = Append(output, MintAddressLine(mint_pda))
    /\ pc' = "l14"
    /\ UNCHANGED <<offCurveBumps, runs, mint_pda, bump, invocations, tool, result, data, exc>>

\* lines 14-18: subprocess.run starts the child
Spawn ==
    /\ pc = "l14"
    /\ invocations' = Append(invocations, ToolArgv(mint_pda))
    /\ tool' = [NoTool EXCEPT !.state = "running"]
    /\ pc' = "l14_wait"
    /\ UNCHANGED <<offCurveBumps, runs, mint_pda, bump, output, result, data, exc>>

\* lines 14-18: subprocess.run cannot start the child (no such program)
SpawnFails ==
    /\ pc = "l14"
    /\ invocations' = Append(invocations, ToolArgv(mint_pda))
    /\ exc' = Exc("FileNotFoundError", "[Errno 2] No such file or directory: 'solana'")
    /\ pc' = Raise(14)
    /\ UNCHANGED <<offCurveBumps, runs, mint_pda, bump, output, tool, result, data>>

\* the child works on
ToolWork ==
    /\ tool.state = "running"
    /\ tool.steps < MaxToolSteps
    /\ tool' = [tool EXCEPT !.steps = @ + 1]
    /\ UNCHANGED <<offCurveBumps, runs, pc, mint_pda, bump, output, invocations, result, data, exc>>

\* the child exits, with some exit code and some text on its two streams
ToolExit ==
    /\ tool.state = "running"
    /\ \E rc \in ReturnCodes, so \in Stdouts, se \in Stderrs :
         tool' = [state |-> "exited", steps |-> 0, returncode |-> rc,
                  stdout |-> so, stderr |-> se]
    /\ UNCHANGED <<offCurveBumps, runs, pc, mint_pda, bump, output, invocations, result, data, exc>>

\* lines 14-18: subprocess.run returns the CompletedProcess: the exit code
\* and the two captured streams, as text
RunReturns ==
    /\ pc = "l14_wait"
    /\ RunMayReturn
    /\ result' = [returncode |-> tool.returncode, stdout |-> tool.stdout,
                  stderr |-> tool.stderr]
    /\ pc' = "l19"
    /\ UNCHANGED <<offCurveBumps, runs, mint_pda, bump, output, invocations, tool, data, exc>>

\* line 19: if result.returncode == 0
Branch ==
    /\ pc = "l19"
    /\ pc' = IF IsSuccess(result) THEN "l20" ELSE "l24"
    /\ UNCHANGED <<offCurveBumps, runs, mint_pda, bump, output, invocations, tool, result, data, exc>>

\* line 20: data = json.loads(result.stdout)
ParseJson ==
    /\ pc = "l20"
    /\ LET r == JsonLoads(result.stdout) IN
         IF r.ok
         THEN /\ data' = r.value
              /\ pc' = "l21"
              /\ exc' = exc
         ELSE /\ exc' = r.error
              /\ pc' = Raise(20)
              /\ data' = data
    /\ UNCHANGED <<offCurveBumps, runs, mint_pda, bump, output, invocations, tool, result>>

\* line 21: print(f"Owner: {data.get('owner')}")
PrintOwner ==
    /\ pc = "l21"
    /\ IF HasGet(data)
       THEN /\ output' = Append(output, OwnerLine(data))
            /\ pc' = "l22"
            /\ exc' = exc
       ELSE /\ exc' = Exc("AttributeError",
                          "'" \o data.t \o "' object has no attribute 'get'")
            /\ pc' = Raise(21)
            /\ output' = output
    /\ UNCHANGED <<offCurveBumps, runs, mint_pda, bump, invocations, tool, result, data>>

\* line 22: print(f"Data: {data}")
PrintData ==
    /\ pc = "l22"
    /\ output' = Append(output, DataLine(data))
    /\ pc' = "done"
    /\ UNCHANGED <<offCurveBumps, runs, mint_pda, bump, invocations, tool, result, data, exc>>

\* line 24: print(f"Error getting account: {result.stderr}")
PrintError ==
    /\ pc = "l24"
    /\ output' = Append(output, ErrorLine(result))
    /\ pc' = "done"
    /\ UNCHANGED <<offCurveBumps, runs, mint_pda, bump, invocations, tool, result, data, exc>>

\* lines 25-26: except Exception as e: print(f"Exception: {e}")
Handler ==
    /\ pc = "l25"
    /\ IF IsSubclass(exc.type, HandlerClass)
       THEN /\ output' = Append(output, ExceptionLine(exc))
            /\ pc' = "done"
       ELSE /\ pc' = "crashed"
            /\ output' = output
    /\ UNCHANGED <<offCurveBumps, runs, mint_pda, bump, invocations, tool, result, data, exc>>

\* what is kept of a run that is over
Summary ==
    [ended |-> pc, mint_pda |-> mint_pda, bump |-> bump,
     mint_line |-> IF output = <<>> THEN "" ELSE output[1],
     invocations |-> invocations,
     tool_state |-> tool.state, returncode |-> tool.returncode]

\* the script is launched again, as a new process
Rerun ==
    /\ pc \in {"done", "crashed"}
    /\ Len(runs) + 1 < MaxRuns
    /\ runs' = Append(runs, Summary)
    /\ pc' = "l9"
    /\ mint_pda' = Unbound
    /\ bump' = -1
    /\ output' = <<>>
    /\ invocations' = <<>>
    /\ tool' = NoTool
    /\ result' = NoResult
    /\ data' = Unbound
    /\ exc' = NoExc
    /\ UNCHANGED offCurveBumps

\* the steps of the script itself
Script ==
    \/ Derive
    \/ PrintMint
    \/ Spawn
    \/ SpawnFails
    \/ RunReturns
    \/ Branch
    \/ ParseJson
    \/ PrintOwner
    \/ PrintData
    \/ PrintError
    \/ Handler

\* the steps of the child process
Tool ==
    \/ ToolWork
    \/ ToolExit

NextRun == Script \/ Tool

Next == Script \/ Tool \/ Rerun

Spec == Init /\ [][Next]_vars

\* one launch of the script; the interpreter always takes the script's next
\* step, the child process may run forever
FairSpec == Init /\ [][NextRun]_vars /\ WF_vars(Script)

----------------------------------------------------------------------------
(* Properties *)

\* the child has exited and the run is still this launch's
Exited == tool.state = "exited"

\* the sample outputs that are a JSON object with an owner member
OwnerSamples == {OutOwner, OutOwnerMore, OutOwnerNull}

\* what Python prints for each of them (lines 21 and 22)
ExpectedOwnerLine(s) ==
    CASE s = OutOwner     -> "Owner: TokenkegQ"
      [] s = OutOwnerMore -> "Owner: 11111111"
      [] s = OutOwnerNull -> "Owner: None"
      [] OTHER            -> "Owner: None"

ExpectedDataLine(s) ==
    CASE s = OutOwner     -> "Data: {'owner': 'TokenkegQ'}"
      [] s = OutOwnerMore -> "Data: {'owner': '11111111', 'lamports': 5}"
      [] s = OutOwnerNull -> "Data: {'owner': None}"
      [] s = OutNested    -> "Data: {'pubkey': 'Dy2T', 'account': {'owner': 'TokenkegQ'}}"
      [] OTHER            -> "Data: {}"

IsPrefix(s, t) == Len(s) <= Len(t) /\ s = SubSeq(t, 1, Len(s))

\* C1: when the child exited with code 0 and wrote a JSON object with an
\* owner member, the run prints the Mint Address line, then the owner's
\* value, then the whole parsed structure, and nothing else; it never
\* reaches the error branch or the except clause.
C1_SuccessPath ==
    (Exited /\ tool.returncode = 0 /\ tool.stdout \in OwnerSamples) =>
        LET expected == <<MintAddressLine(mint_pda),
                          ExpectedOwnerLine(tool.stdout),
                          ExpectedDataLine(tool.stdout)>> IN
          /\ pc \in {"l14_wait", "l19", "l20", "l21", "l22", "done"}
          /\ exc = NoExc
          /\ output # <<>>
          /\ IsPrefix(output, expected)
          /\ (pc = "l22" => Len(output) = 2)
          /\ (pc = "done" => output = expected)

C1_Witness ==
    /\ pc = "done"
    /\ tool.returncode = 0
    /\ tool.stdout = OutOwnerMore
    /\ Len(output) = 3
    /\ output[2] = "Owner: 11111111"

\* C2: when the child exited with a non-zero code, the run prints the
\* Mint Address line and then "Error getting account: " followed by the
\* child's standard-error text, unchanged; standard output is never parsed,
\* whatever it holds; no exception is raised and the run ends normally.
C2_FailurePath ==
    (Exited /\ tool.returncode # 0) =>
        /\ pc \in {"l14_wait", "l19", "l24", "done"}
        /\ data = Unbound
        /\ exc = NoExc
        /\ (pc # "done" => output = <<MintAddressLine(mint_pda)>>)
        /\ (pc = "done" =>
              output = <<MintAddressLine(mint_pda),
                         "Error getting account: " \o tool.stderr>>)

C2_Witness ==
    /\ pc = "done"
    /\ tool.returncode = 1
    /\ tool.stderr = "boom"
    /\ tool.stdout = OutOwner
    /\ output[2] = "Error getting account: boom"

\* C3: an exception raised by the invocation (the child cannot be started)
\* or by the parsing (malformed JSON, a JSON value
\* that is not an object) is caught: the run prints "Exception: " and the
\* exception's message after the Mint Address line, and ends normally; it
\* never crashes and prints no Owner line.
C3_ExceptionsCaught ==
    (bump # -1 /\ exc # NoExc) =>
        /\ pc \in {"l25", "done"}
        /\ exc.type \in {"FileNotFoundError", "JSONDecodeError", "AttributeError"}
        /\ (pc = "l25" => output = <<MintAddressLine(mint_pda)>>)
        /\ (pc = "done" =>
              output = <<MintAddressLine(mint_pda), "Exception: " \o exc.msg>>)
        /\ (pc = "done" /\ tool.state = "exited" /\ tool.stdout = OutEmpty =>
              output[2] = "Exception: Expecting value: line 1 column 1 (char 0)")
        /\ (pc = "done" /\ tool.state = "exited" /\ tool.stdout = OutList =>
              output[2] = "Exception: 'list' object has no attribute 'get'")

\* every run that got past the derivation ends normally
C3_NoCrash == bump # -1 => pc # "crashed"

C3_Caught == C3_ExceptionsCaught /\ C3_NoCrash

C3_Witness ==
    /\ pc = "done"
    /\ tool.state = "none"
    /\ exc.type = "FileNotFoundError"
    /\ Len(output) = 2


\* the candidate address of the script's seeds and program for a bump seed
MintCandidate(b) == CreateCandidate(<<"mint">>, b, ENERGY_TOKEN_PROGRAM_ID)

\* C4: the bump seed the derivation returns is the first one, going from 255
\* down to 0, whose candidate address is off the curve: its own candidate is
\* off the curve, the candidate of every larger bump seed is on it, and the
\* address returned is the candidate of the bump seed returned; a bump seed
\* is returned whenever at least one candidate is off the curve.
C4_FirstOffCurveBump ==
    /\ bump # -1 =>
          /\ bump \in 0..255
          /\ ~IsOnCurve(MintCandidate(bump))
          /\ \A b \in (bump + 1)..255 : IsOnCurve(MintCandidate(b))
          /\ mint_pda = MintCandidate(bump)
    /\ (pc # "l9" /\ \E b \in 0..255 : ~IsOnCurve(MintCandidate(b))) => bump # -1

C4_Witness ==
    /\ offCurveBumps = {0, 254}
    /\ bump = 254
    /\ pc = "done"

\* the text of an address that is off the curve: the script's seeds and
\* program, and a bump seed whose candidate is not a point of the curve
IsOffCurveText(text) ==
    \E b \in 0..255 :
        /\ ~IsOnCurve(MintCandidate(b))
        /\ text = PubkeyStr(MintCandidate(b))

\* C5: the address a run derives is off the curve, and the address in its
\* Mint Address line and the address it passes to the child are the text of
\* an off-curve address, never that of a point of the curve (such as the
\* program identifier).
C5_DerivedOffCurve ==
    /\ mint_pda # Unbound =>
          /\ \E b \in 0..255 : mint_pda = MintCandidate(b)
          /\ ~IsOnCurve(mint_pda)
    /\ output # <<>> =>
          \E b \in 0..255 :
              /\ ~IsOnCurve(MintCandidate(b))
              /\ output[1] = "Mint Address: " \o PubkeyStr(MintCandidate(b))
    /\ \A i \in DOMAIN invocations :
          /\ Len(invocations[i]) >= 3
          /\ IsOffCurveText(invocations[i][3])
          /\ \A j \in DOMAIN invocations[i] :
                invocations[i][j] # PubkeyStr(ENERGY_TOKEN_PROGRAM_ID)

C5_Witness ==
    /\ offCurveBumps = {0, 254}
    /\ mint_pda = MintCandidate(254)
    /\ Len(output) >= 1
    /\ Len(invocations) = 1
    /\ tool.state = "exited"

\* the address argument of a run's invocation
AddressArgument(inv) == IF Len(inv[1]) >= 3 THEN inv[1][3] ELSE ""

C7_ExhaustedSearch ==
    (\A b \in 0..255 : IsOnCurve(MintCandidate(b))) =>
        /\ mint_pda = Unbound
        /\ bump = -1
        /\ output = <<>>
        /\ invocations = <<>>
        /\ tool.state = "none"
        /\ pc \in {"l9", "crashed"}
        /\ (pc = "crashed" => exc.type = "PanicException")

C7_Witness ==
    /\ offCurveBumps = {}
    /\ pc = "crashed"
    /\ exc # NoExc

\* C8: a run starts the child at most once; it does so only after the Mint
\* Address line is printed, with the argument list solana, account, the
\* derived address, --output, json; and it prints an outcome line only after
\* that.
C8_SingleInvocation ==
    /\ Len(invocations) <= 1
    /\ invocations # <<>> =>
          /\ output # <<>>
          /\ output[1] = "Mint Address: " \o PubkeyStr(mint_pda)
          /\ mint_pda = MintCandidate(bump)
          /\ invocations[1] = <<"solana", "account", PubkeyStr(mint_pda), "--output", "json">>
    /\ Len(output) >= 2 => invocations # <<>>
    /\ (tool.state # "none" => invocations # <<>>)

C8_Witness ==
    /\ pc = "done"
    /\ Len(invocations) = 1
    /\ tool.state = "exited"
    /\ tool.returncode = -9
    /\ Len(output) = 2

\* the reports a run has printed
OwnerReported ==
    /\ Len(output) >= 2
    /\ \E s \in Stdouts : output[2] = ExpectedOwnerLine(s)
ErrorReported ==
    /\ Len(output) >= 2
    /\ \E se \in Stderrs : \E i \in 2..Len(output) : output[i] = "Error getting account: " \o se
ExceptionReported ==
    /\ Len(output) >= 2
    /\ exc # NoExc
    /\ \E i \in 2..Len(output) : output[i] = "Exception: " \o exc.msg

\* C9 (safety part): while the child runs the script waits at the call and
\* has printed the Mint Address line only; the script is never past the
\* call, or over, with the child still running.
C9_BlockedWhileRunning ==
    tool.state = "running" => (pc = "l14_wait" /\ Len(output) = 1 /\ result = NoResult)

\* C9: the call blocks until the child exits (no timeout); once the child
\* has exited, or could not be started, the run reaches its normal end; a
\* run whose child never exits never ends.
C9_Blocking ==
    /\ []C9_BlockedWhileRunning
    /\ (tool.state = "exited" ~> pc = "done")
    /\ ((pc = "l25" /\ tool.state = "none") ~> pc = "done")

C9_Witness ==
    /\ pc = "done"
    /\ tool.state = "exited"
    /\ tool.returncode = -9
    /\ Len(output) = 2
    /\ Len(runs) = 0

\* C10: a run that derived the address never crashes and prints at most
\* one of the three reports; a run that is over has printed exactly one:
\* the Owner and Data lines (exit code 0 and a JSON object), or the Error
\* line (non-zero exit code), or the Exception line (an exception was
\* raised).
C10_OneReport ==
    bump # -1 =>
        /\ pc # "crashed"
        /\ Len(output) <= 3
        /\ ~(OwnerReported /\ ErrorReported)
        /\ ~(OwnerReported /\ ExceptionReported)
        /\ ~(ErrorReported /\ ExceptionReported)
        /\ (pc = "done" =>
              \/ /\ OwnerReported
                 /\ Len(output) = 3
                 /\ output[3] = ExpectedDataLine(result.stdout)
                 /\ result.returncode = 0 /\ tool.state = "exited"
                 /\ HasGet(data) /\ exc = NoExc
              \/ /\ ErrorReported
                 /\ Len(output) = 2
                 /\ tool.state = "exited" /\ result.returncode # 0
                 /\ exc = NoExc
              \/ /\ ExceptionReported
                 /\ Len(output) = 2
                 /\ \/ tool.state = "none"
                    \/ tool.returncode = 0 /\ ~JsonLoads(tool.stdout).ok
                    \/ tool.returncode = 0 /\ ~HasGet(JsonLoads(tool.stdout).value))

C10_Witness ==
    /\ pc = "done"
    /\ tool.state = "exited"
    /\ tool.returncode = 0
    /\ tool.stdout = OutTruncated
    /\ ExceptionReported

====
